---- MODULE Spec2Model ----
(***************************************************************************)
(* The MCP -> n8n bridge of src/mcp_server.py as a state machine, with the  *)
(* standalone client of src/n8n_client.py beside it.                       *)
(*                                                                         *)
(* Encoding of Python values:                                              *)
(*   Optional[T]   a set with at most one element: {} is None, {v} is v    *)
(*   dict          a set of <<key, value>> pairs with distinct keys        *)
(*   exception     a record whose cls field names the exception class      *)
(* A request is handled in steps split at the one suspension point of the  *)
(* code, the await of the outbound HTTP call.                              *)
(***************************************************************************)
EXTENDS Integers, Sequences, FiniteSets, TLC

VARIABLES
    phase,      \* position of lifespan(): "init", "running" (at its yield), then
                \* "returned" or "raised" (how the generator ended)
    client,     \* the httpx.AsyncClient of lifespan(): "none", "open", "closed"
    created,    \* number of httpx.AsyncClient(...) constructions
    closed,     \* number of client.aclose() calls
    pc,         \* per request slot: position of handle_mcp_request/event_publisher
    req,        \* per request slot: the MCPRequest being handled
    calls,      \* per request slot: the outbound HTTP calls issued for the request
    upstream,   \* per request slot: what the upstream answered to the call
    events,     \* per request slot: the events yielded by event_publisher
    lib         \* the operation in progress on an N8NClient of n8n_client.py

vars == <<phase, client, created, closed, pc, req, calls, upstream, events, lib>>

\* Number of requests that can be in flight at once in Spec.
MaxInFlight == 2
\* limit and offset are drawn from -1 .. MaxLimit in SpecInputs.
MaxLimit == 1

(***************************************************************************)
(* Python helpers                                                          *)
(***************************************************************************)
None == {}
Some(v) == {v}
Get(opt) == CHOOSE v \in opt : TRUE

HasKey(d, k) == \E kv \in d : kv[1] = k
\* dict.setdefault(k, v): insert only when the key is missing
SetDefault(d, k, v) == IF HasKey(d, k) THEN d ELSE d \cup {<<k, v>>}
\* "x or None" for a dict x: an empty dict is falsy
OrNone(d) == IF d = {} THEN None ELSE Some(d)

Digit(d) == CASE d = 0 -> "0" [] d = 1 -> "1" [] d = 2 -> "2" [] d = 3 -> "3"
              [] d = 4 -> "4" [] d = 5 -> "5" [] d = 6 -> "6" [] d = 7 -> "7"
              [] d = 8 -> "8" [] d = 9 -> "9"
RECURSIVE str(_)
\* str(n) of a non-negative int: its decimal digits
str(n) == IF n < 10 THEN Digit(n) ELSE str(n \div 10) \o Digit(n % 10)

(***************************************************************************)
(* Parameter bags and the per-method schemas (pydantic models)             *)
(***************************************************************************)
EmptyBag == [limit |-> None, offset |-> None, workflow_id |-> None,
             execution_id |-> None, workflow |-> None, payload |-> None]

\* Mutant: the ge=1 / ge=0 constraints are missing
ListWorkflowsParams_unconstrained(params) ==
    [ok |-> TRUE,
     model |-> [EmptyBag EXCEPT !.limit = params.limit, !.offset = params.offset]]

\* ListWorkflowsParams.parse_obj: limit >= 1 and offset >= 0 when given
ListWorkflowsParams(params) ==
    IF (params.limit # None /\ Get(params.limit) < 1)
       \/ (params.offset # None /\ Get(params.offset) < 0)
    THEN [ok |-> FALSE, model |-> EmptyBag]
    ELSE [ok |-> TRUE,
          model |-> [EmptyBag EXCEPT !.limit = params.limit, !.offset = params.offset]]

\* CreateWorkflowParams.parse_obj: workflow defaults to {}
CreateWorkflowParams(params) ==
    [ok |-> TRUE,
     model |-> [EmptyBag EXCEPT !.workflow =
                   IF params.workflow = None THEN Some({}) ELSE params.workflow]]

\* UpdateWorkflowParams.parse_obj: workflow_id is required, workflow defaults to {}
UpdateWorkflowParams(params) ==
    IF params.workflow_id = None
    THEN [ok |-> FALSE, model |-> EmptyBag]
    ELSE [ok |-> TRUE,
          model |-> [EmptyBag EXCEPT !.workflow_id = params.workflow_id,
                        !.workflow = IF params.workflow = None THEN Some({})
                                     ELSE params.workflow]]

\* DeleteWorkflowParams.parse_obj: workflow_id is required
DeleteWorkflowParams(params) ==
    IF params.workflow_id = None
    THEN [ok |-> FALSE, model |-> EmptyBag]
    ELSE [ok |-> TRUE, model |-> [EmptyBag EXCEPT !.workflow_id = params.workflow_id]]

\* RunWorkflowParams.parse_obj: workflow_id is optional, payload defaults to {}
RunWorkflowParams(params) ==
    [ok |-> TRUE,
     model |-> [EmptyBag EXCEPT !.workflow_id = params.workflow_id,
                   !.payload = IF params.payload = None THEN Some({})
                               ELSE params.payload]]

\* GetExecutionStatusParams.parse_obj: execution_id is required
GetExecutionStatusParams(params) ==
    IF params.execution_id = None
    THEN [ok |-> FALSE, model |-> EmptyBag]
    ELSE [ok |-> TRUE, model |-> [EmptyBag EXCEPT !.execution_id = params.execution_id]]

\* The keys of METHOD_PARAM_MODELS
METHOD_NAMES == {"list_workflows", "create_workflow", "update_workflow",
                 "delete_workflow", "run_workflow", "get_execution_status"}

\* METHOD_PARAM_MODELS[method](params)
METHOD_PARAM_MODELS(method, params) ==
    CASE method = "list_workflows" -> ListWorkflowsParams(params)
      [] method = "create_workflow" -> CreateWorkflowParams(params)
      [] method = "update_workflow" -> UpdateWorkflowParams(params)
      [] method = "delete_workflow" -> DeleteWorkflowParams(params)
      [] method = "run_workflow" -> RunWorkflowParams(params)
      [] method = "get_execution_status" -> GetExecutionStatusParams(params)

(***************************************************************************)
(* Upstream answers, exceptions                                            *)
(***************************************************************************)
EmptyContent == [kind |-> "empty", value |-> {}]
NoOutcome == [kind |-> "none", status |-> 0, content |-> EmptyContent]

\* httpx.Response.is_success
IsSuccess(response) == 200 <= response.status /\ response.status <= 299

Exc(cls, response) == [cls |-> cls, response |-> response]
Raise(exc) == [kind |-> "raise", exc |-> exc, value |-> {}]
Return(value) == [kind |-> "return", exc |-> Exc("", None), value |-> value]

\* The classes an exception is an instance of (httpx and builtin hierarchy)
IsInstance(exc, cls) ==
    \/ cls = exc.cls
    \/ cls = "Exception"
    \/ cls = "HTTPError" /\ exc.cls \in {"HTTPStatusError", "ConnectError"}

\* response.json(): the parsed body, or JSONDecodeError when the content is
\* not JSON (empty content included)
ResponseJson(response) ==
    IF response.content.kind = "json"
    THEN Return(response.content.value)
    ELSE Raise(Exc("JSONDecodeError", None))

\* The tail shared by the client operations, from the point where the awaited
\* HTTP call completes: the transport error is raised by the await itself,
\* then response.raise_for_status(), then response.json()
AwaitThenJson(outcome) ==
    IF outcome.kind = "transport_error" THEN Raise(Exc("ConnectError", None))
    ELSE IF ~IsSuccess(outcome) THEN Raise(Exc("HTTPStatusError", Some(outcome)))
    ELSE ResponseJson(outcome)

(***************************************************************************)
(* N8nClient: for each operation, the HTTP call it issues, and its result  *)
(* once the upstream has answered                                          *)
(***************************************************************************)
Call(verb, path, params, json) ==
    [verb |-> verb, path |-> path, params |-> params, json |-> json]

\* params.dict(exclude_none=True) of a ListWorkflowsParams
ListQuery(p) ==
    {<<"limit", Get(p.limit)>> : x \in p.limit} \cup {<<"offset", Get(p.offset)>> : x \in p.offset}

list_workflows_call(p) == Call("GET", <<"rest", "workflows">>, OrNone(ListQuery(p)), None)
list_workflows(p, outcome) == AwaitThenJson(outcome)

create_workflow_call(p) == Call("POST", <<"rest", "workflows">>, None, Some(Get(p.workflow)))
create_workflow(p, outcome) == AwaitThenJson(outcome)

update_workflow_call(p) ==
    Call("PATCH", <<"rest", "workflows", Get(p.workflow_id)>>, None, Some(Get(p.workflow)))
update_workflow(p, outcome) == AwaitThenJson(outcome)

delete_workflow_call(p) ==
    Call("DELETE", <<"rest", "workflows", Get(p.workflow_id)>>, None, None)
\* Mutant: the body is parsed whether or not it is empty
delete_workflow_always_json(p, outcome) == AwaitThenJson(outcome)
delete_workflow(p, outcome) ==
    IF outcome.kind = "transport_error" THEN Raise(Exc("ConnectError", None))
    ELSE IF ~IsSuccess(outcome) THEN Raise(Exc("HTTPStatusError", Some(outcome)))
    ELSE IF outcome.content.kind # "empty" THEN ResponseJson(outcome)
    ELSE Return({<<"status", "deleted">>})

\* Mutant: workflowId is assigned instead of set by default
run_workflow_payload_overwrite(p) ==
    IF p.workflow_id # None /\ Get(p.workflow_id) # ""
    THEN {kv \in Get(p.payload) : kv[1] # "workflowId"} \cup {<<"workflowId", Get(p.workflow_id)>>}
    ELSE Get(p.payload)

\* The body run_workflow posts: a copy of the payload, with workflowId set
\* from a truthy workflow_id unless the payload already has the key
run_workflow_payload(p) ==
    IF p.workflow_id # None /\ Get(p.workflow_id) # ""
    THEN SetDefault(Get(p.payload), "workflowId", Get(p.workflow_id))
    ELSE Get(p.payload)
run_workflow_call(p) ==
    Call("POST", <<"rest", "workflows", "run">>, None, OrNone(run_workflow_payload(p)))
run_workflow(p, outcome) == AwaitThenJson(outcome)

get_execution_status_call(p) ==
    Call("GET", <<"rest", "executions", Get(p.execution_id)>>, None, None)
get_execution_status(p, outcome) == AwaitThenJson(outcome)

(***************************************************************************)
(* N8NClient of n8n_client.py: run_workflow and delete_workflow            *)
(***************************************************************************)
\* dict.update(e) applied to d
Update(d, e) == {kv \in d : ~HasKey(e, kv[1])} \cup e

\* The body N8NClient.run_workflow posts: workflowId, updated with a truthy
\* payload
N8NClient_run_workflow_body(workflow_id, payload) ==
    IF payload # None /\ Get(payload) # {}
    THEN Update({<<"workflowId", workflow_id>>}, Get(payload))
    ELSE {<<"workflowId", workflow_id>>}
N8NClient_run_workflow_call(workflow_id, payload) ==
    Call("POST", <<"workflows", "run">>, None,
         Some(N8NClient_run_workflow_body(workflow_id, payload)))
N8NClient_run_workflow(workflow_id, outcome) == AwaitThenJson(outcome)

N8NClient_delete_workflow_call(workflow_id) ==
    Call("DELETE", <<"workflows", workflow_id>>, None, None)
\* The body of the answer is never read; True is written "True"
N8NClient_delete_workflow(workflow_id, outcome) ==
    IF outcome.kind = "transport_error" THEN Raise(Exc("ConnectError", None))
    ELSE IF ~IsSuccess(outcome) THEN Raise(Exc("HTTPStatusError", Some(outcome)))
    ELSE Return({<<"deleted", "True">>, <<"id", workflow_id>>})

\* getattr(client, method)(params_model), up to the await
HandlerCall(method, p) ==
    CASE method = "list_workflows" -> list_workflows_call(p)
      [] method = "create_workflow" -> create_workflow_call(p)
      [] method = "update_workflow" -> update_workflow_call(p)
      [] method = "delete_workflow" -> delete_workflow_call(p)
      [] method = "run_workflow" -> run_workflow_call(p)
      [] method = "get_execution_status" -> get_execution_status_call(p)

\* getattr(client, method)(params_model), from the await on
HandlerResult(method, p, outcome) ==
    CASE method = "list_workflows" -> list_workflows(p, outcome)
      [] method = "create_workflow" -> create_workflow(p, outcome)
      [] method = "update_workflow" -> update_workflow(p, outcome)
      [] method = "delete_workflow" -> delete_workflow(p, outcome)
      [] method = "run_workflow" -> run_workflow(p, outcome)
      [] method = "get_execution_status" -> get_execution_status(p, outcome)

(***************************************************************************)
(* dispatch_request and event_publisher                                    *)
(***************************************************************************)
\* What a run of the generator does between two suspension points: where it
\* stops, the events it yields and the HTTP calls it issues
Step(next, emit, send) == [next |-> next, emit |-> emit, send |-> send]

MCPError(code, message, details) == [code |-> code, message |-> message, details |-> details]
MCPResponse(id, result, error) == [id |-> id, result |-> result, error |-> error]

\* The event of the success branch
ResultEvent(request, result) ==
    [event |-> "result",
     data |-> MCPResponse(request.id, Some([type |-> "json_schema", data |-> result]), None)]

\* Mutant: the error envelope is sent under the "result" tag
ErrorEvent_result_tag(request, error) ==
    [event |-> "result", data |-> MCPResponse(request.id, None, Some(error))]

\* The event of an except branch
ErrorEvent(request, error) ==
    [event |-> "error", data |-> MCPResponse(request.id, None, Some(error))]

\* Mutant: an unknown method falls back to the list_workflows handler
dispatch_request_fallback(request) ==
    LET method == IF request.method \in METHOD_NAMES THEN request.method ELSE "list_workflows"
        parsed == METHOD_PARAM_MODELS(method, request.params)
    IN  IF ~parsed.ok
        THEN Raise(Exc("ValidationError", None))
        ELSE [kind |-> "await", exc |-> Exc("", None),
              value |-> HandlerCall(method, parsed.model)]

\* dispatch_request up to its await: the exception it raises, or the call
\* the handler issues. str(exc) is modelled by the exception's class name.
dispatch_request(request) ==
    IF request.method \notin METHOD_NAMES
    THEN Raise(Exc("HTTPException", None))
    ELSE LET parsed == METHOD_PARAM_MODELS(request.method, request.params)
         IN  IF ~parsed.ok
             THEN Raise(Exc("ValidationError", None))
             ELSE [kind |-> "await", exc |-> Exc("", None),
                   value |-> HandlerCall(request.method, parsed.model)]

\* Mutant: the httpx.HTTPError clause comes first and shadows HTTPStatusError
event_publisher_except_shadowed(request, exc) ==
    IF IsInstance(exc, "HTTPError")
    THEN Step("done", <<ErrorEvent(request, MCPError("http_error", exc.cls, None))>>, <<>>)
    ELSE Step("done", <<ErrorEvent(request, MCPError("internal_error", exc.cls, None))>>, <<>>)

\* The except clauses of event_publisher, in their order. An exception raised
\* inside a clause is not caught by the clauses after it: the generator ends
\* with that exception and yields nothing.
event_publisher_except(request, exc) ==
    IF IsInstance(exc, "HTTPStatusError")
    THEN LET response == Get(exc.response)
         IN  IF response.content.kind = "empty"
             THEN Step("done",
                       <<ErrorEvent(request,
                            MCPError(str(response.status), "n8n API returned an error",
                                     Some([response |-> None])))>>, <<>>)
             ELSE IF ResponseJson(response).kind = "raise"
             THEN Step("failed", <<>>, <<>>)
             ELSE Step("done",
                       <<ErrorEvent(request,
                            MCPError(str(response.status), "n8n API returned an error",
                                     Some([response |-> Some(ResponseJson(response).value)])))>>,
                       <<>>)
    ELSE IF IsInstance(exc, "HTTPError")
    THEN Step("done", <<ErrorEvent(request, MCPError("http_error", exc.cls, None))>>, <<>>)
    ELSE Step("done", <<ErrorEvent(request, MCPError("internal_error", exc.cls, None))>>, <<>>)

\* event_publisher from its start to the await of the HTTP call (or to its end)
event_publisher_start(request) ==
    LET d == dispatch_request(request)
    IN  IF d.kind = "await"
        THEN Step("awaiting", <<>>, <<d.value>>)
        ELSE event_publisher_except(request, d.exc)

\* Mutant: a transport failure is retried once more instead of reported
event_publisher_resume_retry(request, outcome) ==
    LET parsed == METHOD_PARAM_MODELS(request.method, request.params)
        result == HandlerResult(request.method, parsed.model, outcome)
    IN  IF result.kind = "return"
        THEN Step("done", <<ResultEvent(request, result.value)>>, <<>>)
        ELSE IF IsInstance(result.exc, "HTTPError") /\ ~IsInstance(result.exc, "HTTPStatusError")
        THEN Step("awaiting", <<>>, <<HandlerCall(request.method, parsed.model)>>)
        ELSE event_publisher_except(request, result.exc)

\* event_publisher from the completion of the HTTP call to its end
event_publisher_resume(request, outcome) ==
    LET parsed == METHOD_PARAM_MODELS(request.method, request.params)
        result == HandlerResult(request.method, parsed.model, outcome)
    IN  IF result.kind = "return"
        THEN Step("done", <<ResultEvent(request, result.value)>>, <<>>)
        ELSE event_publisher_except(request, result.exc)

\* Mutant: no finally, the client is closed only on a normal exit
lifespan_exit_no_finally(viaError) == [aclose |-> ~viaError]

\* lifespan after its yield: the finally clause closes the client whether the
\* generator is resumed normally or an exception is thrown into it
lifespan_exit(viaError) == [aclose |-> TRUE]

(***************************************************************************)
(* Inputs                                                                  *)
(***************************************************************************)
RequestIds == {"req-1", "req-2"}
Methods == METHOD_NAMES \cup {"restart_workflow"}

JsonBody == {<<"message", "not found">>}
Contents == {EmptyContent, [kind |-> "json", value |-> JsonBody],
             [kind |-> "text", value |-> {}]}
Outcomes ==
    {[kind |-> "response", status |-> s, content |-> c] : s \in {200, 404, 502}, c \in Contents}
    \cup {[kind |-> "transport_error", status |-> 0, content |-> EmptyContent]}

OptInts == {None} \cup {Some(i) : i \in -1 .. MaxLimit}
Payloads == {{}, {<<"workflowId", "preset">>}, {<<"runData", "x">>},
             {<<"workflowId", "preset">>, <<"runData", "x">>}}
ListBags == {[EmptyBag EXCEPT !.limit = l, !.offset = o] : l \in OptInts, o \in OptInts}
IdBags == {[EmptyBag EXCEPT !.workflow_id = w, !.execution_id = e, !.payload = pl, !.workflow = wf] :
              w \in {None, Some(""), Some("abc")}, e \in {None, Some("e1")},
              pl \in {None} \cup {Some(d) : d \in Payloads},
              wf \in {None, Some({<<"name", "wf">>})}}

\* Every request SpecInputs handles
AllRequests ==
    {[id |-> i, method |-> m, params |-> b] :
        i \in RequestIds, m \in Methods, b \in ListBags \cup IdBags}

\* The requests Spec handles concurrently: a valid call of each method (one
\* of them under either id), an unsupported method and a schema violation
RepresentativeRequests ==
    {[id |-> q[1], method |-> q[2], params |-> q[3]] :
        q \in {<<"req-1", "list_workflows", [EmptyBag EXCEPT !.limit = Some(1)]>>,
               <<"req-2", "create_workflow", [EmptyBag EXCEPT !.workflow = Some({<<"name", "wf">>})]>>,
               <<"req-1", "update_workflow", [EmptyBag EXCEPT !.workflow_id = Some("abc")]>>,
               <<"req-2", "delete_workflow", [EmptyBag EXCEPT !.workflow_id = Some("abc")]>>,
               <<"req-1", "run_workflow", [EmptyBag EXCEPT !.workflow_id = Some("abc")]>>,
               <<"req-1", "get_execution_status", [EmptyBag EXCEPT !.execution_id = Some("e1")]>>,
               <<"req-2", "get_execution_status", [EmptyBag EXCEPT !.execution_id = Some("e1")]>>,
               <<"req-2", "restart_workflow", EmptyBag>>,
               <<"req-1", "list_workflows", [EmptyBag EXCEPT !.limit = Some(0)]>>}}

\* The upstream answers Spec draws from
RepresentativeOutcomes ==
    {o \in Outcomes :
        \/ o.kind = "transport_error"
        \/ o.status = 200 /\ o.content.kind \in {"json", "empty"}
        \/ o.status = 404 /\ o.content.kind = "json"
        \/ o.status = 502 /\ o.content.kind = "text"}

NoRequest == [id |-> "", method |-> "", params |-> EmptyBag]

\* The direct calls of N8NClient SpecInputs makes
LibraryCalls ==
    {[op |-> op, workflow_id |-> w, payload |-> pl] :
        op \in {"run_workflow", "delete_workflow"}, w \in {"", "abc"},
        pl \in {None} \cup {Some(d) : d \in Payloads}}

LibIdle == [pc |-> "idle", op |-> "", workflow_id |-> "", payload |-> None,
            call |-> Call("", <<>>, None, None), outcome |-> NoOutcome,
            result |-> [kind |-> "none", exc |-> Exc("", None), value |-> {}]]

(***************************************************************************)
(* Actions                                                                 *)
(***************************************************************************)
InitSlots(slots) ==
    /\ phase = "init"
    /\ client = "none"
    /\ created = 0
    /\ closed = 0
    /\ pc = [r \in slots |-> "idle"]
    /\ req = [r \in slots |-> NoRequest]
    /\ calls = [r \in slots |-> <<>>]
    /\ upstream = [r \in slots |-> NoOutcome]
    /\ events = [r \in slots |-> <<>>]
    /\ lib = LibIdle

Init == InitSlots(1 .. MaxInFlight)
InitInputs == InitSlots({1})

\* lifespan up to its yield: the client is constructed and stored
Startup ==
    /\ phase = "init"
    /\ phase' = "running"
    /\ client' = "open"
    /\ created' = created + 1
    /\ UNCHANGED <<closed, pc, req, calls, upstream, events, lib>>

\* lifespan after its yield. The server stops serving and drains the requests
\* in flight before it ends the lifespan.
Shutdown(viaError) ==
    /\ phase = "running"
    /\ \A r \in DOMAIN pc : pc[r] \notin {"streaming", "awaiting"}
    /\ phase' = IF viaError THEN "raised" ELSE "returned"
    /\ IF lifespan_exit(viaError).aclose
       THEN client' = "closed" /\ closed' = closed + 1
       ELSE UNCHANGED <<client, closed>>
    /\ UNCHANGED <<created, pc, req, calls, upstream, events, lib>>

\* handle_mcp_request: returns the EventSourceResponse over event_publisher()
Receive(r, request) ==
    /\ phase = "running"
    /\ pc[r] = "idle"
    /\ lib.pc = "idle"
    /\ pc' = [pc EXCEPT ![r] = "streaming"]
    /\ req' = [req EXCEPT ![r] = request]
    /\ UNCHANGED <<phase, client, created, closed, calls, upstream, events, lib>>

Apply(r, step) ==
    /\ pc' = [pc EXCEPT ![r] = step.next]
    /\ events' = [events EXCEPT ![r] = @ \o step.emit]
    /\ calls' = [calls EXCEPT ![r] = @ \o step.send]

\* The transport starts iterating event_publisher
Publish(r) ==
    /\ pc[r] = "streaming"
    /\ Apply(r, event_publisher_start(req[r]))
    /\ UNCHANGED <<phase, client, created, closed, req, upstream, lib>>

\* The upstream answers the call (or the transport fails) and event_publisher
\* resumes
Respond(r, outcome) ==
    /\ pc[r] = "awaiting"
    /\ upstream' = [upstream EXCEPT ![r] = outcome]
    /\ Apply(r, event_publisher_resume(req[r], outcome))
    /\ UNCHANGED <<phase, client, created, closed, req, lib>>

\* The response stream is over and the per-request state is discarded
Discard(r) ==
    /\ pc[r] \in {"done", "failed"}
    /\ pc' = [pc EXCEPT ![r] = "idle"]
    /\ req' = [req EXCEPT ![r] = NoRequest]
    /\ calls' = [calls EXCEPT ![r] = <<>>]
    /\ upstream' = [upstream EXCEPT ![r] = NoOutcome]
    /\ events' = [events EXCEPT ![r] = <<>>]
    /\ UNCHANGED <<phase, client, created, closed, lib>>

\* A caller invokes run_workflow or delete_workflow on an N8NClient, up to
\* the await of its HTTP call. The two clients share no state; SpecInputs runs
\* one operation at a time.
LibCall(c) ==
    /\ lib.pc = "idle"
    /\ \A r \in DOMAIN pc : pc[r] = "idle"
    /\ lib' = [LibIdle EXCEPT !.pc = "awaiting", !.op = c.op,
                  !.workflow_id = c.workflow_id,
                  !.payload = IF c.op = "run_workflow" THEN c.payload ELSE None,
                  !.call = IF c.op = "run_workflow"
                           THEN N8NClient_run_workflow_call(c.workflow_id, c.payload)
                           ELSE N8NClient_delete_workflow_call(c.workflow_id)]
    /\ UNCHANGED <<phase, client, created, closed, pc, req, calls, upstream, events>>

\* The upstream answers the N8NClient call and the operation ends
LibRespond(outcome) ==
    /\ lib.pc = "awaiting"
    /\ LET result == IF lib.op = "run_workflow"
                     THEN N8NClient_run_workflow(lib.workflow_id, outcome)
                     ELSE N8NClient_delete_workflow(lib.workflow_id, outcome)
       IN  lib' = [lib EXCEPT !.pc = IF result.kind = "return" THEN "returned" ELSE "raised",
                              !.outcome = outcome, !.result = result]
    /\ UNCHANGED <<phase, client, created, closed, pc, req, calls, upstream, events>>

\* The caller is done with the result
LibDiscard ==
    /\ lib.pc \in {"returned", "raised"}
    /\ lib' = LibIdle
    /\ UNCHANGED <<phase, client, created, closed, pc, req, calls, upstream, events>>

Next ==
    \/ Startup
    \/ \E e \in BOOLEAN : Shutdown(e)
    \/ \E r \in DOMAIN pc, q \in RepresentativeRequests : Receive(r, q)
    \/ \E r \in DOMAIN pc : Publish(r)
    \/ \E r \in DOMAIN pc, o \in RepresentativeOutcomes : Respond(r, o)
    \/ \E r \in DOMAIN pc : Discard(r)

NextInputs ==
    \/ Startup
    \/ \E e \in BOOLEAN : Shutdown(e)
    \/ \E r \in DOMAIN pc, q \in AllRequests : Receive(r, q)
    \/ \E r \in DOMAIN pc : Publish(r)
    \/ \E r \in DOMAIN pc, o \in Outcomes : Respond(r, o)
    \/ \E r \in DOMAIN pc : Discard(r)
    \/ \E c \in LibraryCalls : LibCall(c)
    \/ \E o \in Outcomes : LibRespond(o)
    \/ LibDiscard

\* Concurrent requests, representative inputs
Spec == Init /\ [][Next]_vars
\* One operation at a time, every input
SpecInputs == InitInputs /\ [][NextInputs]_vars

(***************************************************************************)
(* Properties                                                              *)
(***************************************************************************)
Ended(r) == pc[r] \in {"done", "failed"}
TheError(r) == Get(events[r][1].data.error)

\* C1: every request that has ended emitted exactly one event, tagged
\* "result" or "error", whose envelope carries the request's id.
C1_ExactlyOneTerminalEvent ==
    \A r \in DOMAIN pc :
        /\ Len(events[r]) <= 1
        /\ Ended(r) =>
              /\ Len(events[r]) = 1
              /\ events[r][1].event \in {"result", "error"}
              /\ events[r][1].data.id = req[r].id

\* C2: a request whose method is not one of the six supported ones never
\* issues an outbound call and never gets a "result" event: it ends with one
\* "error" event.
C2_UnsupportedMethodNoCall ==
    \A r \in DOMAIN pc :
        (pc[r] # "idle" /\ req[r].method \notin METHOD_NAMES) =>
            /\ calls[r] = <<>>
            /\ pc[r] \in {"streaming", "done"}
            /\ \A i \in 1 .. Len(events[r]) : events[r][i].event = "error"
            /\ pc[r] = "done" => Len(events[r]) = 1

C2_Witness ==
    \E r \in DOMAIN pc :
        /\ req[r].method = "restart_workflow"
        /\ pc[r] = "done"
        /\ Len(events[r]) = 1 /\ events[r][1].event = "error"
        /\ calls[r] = <<>>

\* C3: an unsupported method is reported with the client-error code "400",
\* never with "internal_error".
C3_UnsupportedMethodIsClientError ==
    \A r \in DOMAIN pc :
        (pc[r] = "done" /\ req[r].method \notin METHOD_NAMES) =>
            /\ Len(events[r]) = 1
            /\ events[r][1].event = "error"
            /\ TheError(r).code = "400"
            /\ TheError(r).code # "internal_error"

\* The schema violations of the claim, read off the request as received
SchemaViolation(q) ==
    \/ q.method = "list_workflows" /\ \E l \in q.params.limit : l < 1
    \/ q.method = "list_workflows" /\ \E o \in q.params.offset : o < 0
    \/ q.method \in {"update_workflow", "delete_workflow"} /\ q.params.workflow_id = None
    \/ q.method = "get_execution_status" /\ q.params.execution_id = None

\* C4: a supported method with a parameter bag that fails its schema issues no
\* outbound call and ends with one "error" event.
C4_InvalidParamsNoCall ==
    \A r \in DOMAIN pc :
        (pc[r] # "idle" /\ req[r].method \in METHOD_NAMES /\ SchemaViolation(req[r])) =>
            /\ calls[r] = <<>>
            /\ pc[r] \in {"streaming", "done"}
            /\ pc[r] = "done" => (Len(events[r]) = 1 /\ events[r][1].event = "error")

C4_Witness ==
    \E r \in DOMAIN pc :
        /\ req[r].method = "list_workflows"
        /\ req[r].params.limit = Some(0)
        /\ pc[r] = "done"
        /\ calls[r] = <<>>
        /\ Len(events[r]) = 1 /\ events[r][1].event = "error"

StatusText(status) ==
    CASE status = 200 -> "200" [] status = 404 -> "404" [] status = 502 -> "502"

\* C5: the code of an emitted error event follows the failure class: the
\* upstream status as a string, with details.response the parsed body (None for
\* an empty body), for a non-2xx answer; "http_error" for a transport failure;
\* "internal_error" for every other failure.
C5_ErrorCodeByFailureClass ==
    \A r \in DOMAIN pc :
        \A i \in 1 .. Len(events[r]) :
            events[r][i].event = "error" =>
                LET error == Get(events[r][i].data.error)
                    o == upstream[r]
                IN  IF o.kind = "response" /\ ~(200 <= o.status /\ o.status <= 299)
                    THEN /\ error.code = StatusText(o.status)
                         /\ error.code \notin {"http_error", "internal_error"}
                         /\ o.content.kind = "json" =>
                               error.details = Some([response |-> Some(o.content.value)])
                         /\ o.content.kind = "empty" =>
                               error.details = Some([response |-> None])
                    ELSE IF o.kind = "transport_error"
                    THEN error.code = "http_error"
                    ELSE error.code = "internal_error"

C5_Witness ==
    \E r \in DOMAIN pc :
        /\ req[r].method = "get_execution_status"
        /\ upstream[r] = [kind |-> "response", status |-> 404,
                          content |-> [kind |-> "json", value |-> JsonBody]]
        /\ Len(events[r]) = 1
        /\ events[r][1].event = "error"
        /\ TheError(r).code = "404"
        /\ TheError(r).details = Some([response |-> Some(JsonBody)])

\* The body of the one call of a run_workflow request (no body: the empty dict)
SentBody(r) == IF calls[r][1].json = None THEN {} ELSE Get(calls[r][1].json)
GivenPayload(r) == IF req[r].params.payload = None THEN {} ELSE Get(req[r].params.payload)

\* body is payload with workflow_id merged under workflowId: every payload
\* entry is in the body as given, the body holds nothing else but the merged
\* workflow_id, and when the workflow_id counts as provided and the payload has
\* no workflowId the merged entry is there
Merged(payload, body, workflow_id, provided) ==
    /\ payload \subseteq body
    /\ \A kv \in body : kv \in payload \/ \E w \in workflow_id : kv = <<"workflowId", w>>
    /\ \A kv \in body, kw \in body : kv[1] = kw[1] => kv = kw
    /\ (provided /\ ~HasKey(payload, "workflowId")) =>
          <<"workflowId", Get(workflow_id)>> \in body

LibPayload == IF lib.payload = None THEN {} ELSE Get(lib.payload)

\* C6 as stated: whenever a workflow_id is given, run_workflow sends it under
\* workflowId unless the payload has that key already, and forwards every
\* other payload key unchanged.
C6_MergesWheneverProvided ==
    /\ \A r \in DOMAIN pc :
          (req[r].method = "run_workflow" /\ Len(calls[r]) = 1) =>
              Merged(GivenPayload(r), SentBody(r), req[r].params.workflow_id,
                     req[r].params.workflow_id # None)
    /\ (lib.op = "run_workflow" /\ lib.pc # "idle") =>
          Merged(LibPayload, Get(lib.call.json), Some(lib.workflow_id), TRUE)

\* C6 amended: whenever a non-empty workflow_id is given, run_workflow (of
\* either client) sends it under workflowId unless the payload has that key
\* already, and forwards every other payload key unchanged.
C6_MergesNonEmptyWorkflowId ==
    /\ \A r \in DOMAIN pc :
          (req[r].method = "run_workflow" /\ pc[r] # "idle") =>
              /\ pc[r] # "streaming" => Len(calls[r]) = 1
              /\ Len(calls[r]) = 1 =>
                    Merged(GivenPayload(r), SentBody(r), req[r].params.workflow_id,
                           req[r].params.workflow_id \notin {None, Some("")})
    /\ (lib.op = "run_workflow" /\ lib.pc # "idle") =>
          Merged(LibPayload, Get(lib.call.json), Some(lib.workflow_id),
                 lib.workflow_id # "")

C6_Witness ==
    \E r \in DOMAIN pc :
        /\ req[r].method = "run_workflow"
        /\ req[r].params.workflow_id = Some("abc")
        /\ req[r].params.payload = Some({<<"workflowId", "preset">>, <<"runData", "x">>})
        /\ Len(calls[r]) = 1
        /\ SentBody(r) = {<<"workflowId", "preset">>, <<"runData", "x">>}

\* C7: delete_workflow answered with a 2xx status and an empty body ends with
\* a "result" event whose data is {"status": "deleted"}; on an N8NClient it
\* returns {"deleted": True, "id": workflow_id}.
C7_DeleteEmptyBodySucceeds ==
    /\ \A r \in DOMAIN pc :
          (/\ req[r].method = "delete_workflow"
           /\ upstream[r].kind = "response"
           /\ 200 <= upstream[r].status /\ upstream[r].status <= 299
           /\ upstream[r].content.kind = "empty") =>
              /\ pc[r] = "done"
              /\ Len(events[r]) = 1
              /\ events[r][1].event = "result"
              /\ events[r][1].data.result =
                    Some([type |-> "json_schema", data |-> {<<"status", "deleted">>}])
    /\ (/\ lib.op = "delete_workflow"
        /\ lib.outcome.kind = "response"
        /\ 200 <= lib.outcome.status /\ lib.outcome.status <= 299
        /\ lib.outcome.content.kind = "empty") =>
           /\ lib.pc = "returned"
           /\ lib.result.value = {<<"deleted", "True">>, <<"id", lib.workflow_id>>}

C7_Witness ==
    \E r \in DOMAIN pc :
        /\ req[r].method = "delete_workflow"
        /\ upstream[r] = [kind |-> "response", status |-> 200, content |-> EmptyContent]
        /\ Len(events[r]) = 1
        /\ events[r][1].event = "result"

\* C8: every emitted envelope has exactly one of result and error set, in
\* agreement with the event tag, and a result is {type: "json_schema", data:
\* the remote response}.
C8_ExactlyOneOfResultError ==
    \A r \in DOMAIN pc :
        \A i \in 1 .. Len(events[r]) :
            LET e == events[r][i]
            IN  /\ e.event \in {"result", "error"}
                /\ Cardinality(e.data.result) + Cardinality(e.data.error) = 1
                /\ e.event = "result" =>
                      /\ e.data.error = None
                      /\ e.data.result # None
                      /\ Get(e.data.result).type = "json_schema"
                      /\ Get(e.data.result).data =
                            IF upstream[r].content.kind = "json"
                            THEN upstream[r].content.value
                            ELSE {<<"status", "deleted">>}
                /\ e.event = "error" => (e.data.result = None /\ e.data.error # None)

C8_Witness ==
    \E r \in DOMAIN pc :
        /\ req[r].method = "create_workflow"
        /\ Len(events[r]) = 1
        /\ events[r][1] =
              [event |-> "result",
               data |-> [id |-> req[r].id,
                         result |-> Some([type |-> "json_schema", data |-> JsonBody]),
                         error |-> None]]

\* C9: no request ever has more than one outbound call to its name, whatever
\* the other requests in flight do.
C9_AtMostOneCall ==
    \A r \in DOMAIN pc : Len(calls[r]) <= 1

C9_Witness ==
    \E r1 \in DOMAIN pc, r2 \in DOMAIN pc :
        /\ r1 # r2
        /\ pc[r1] = "awaiting" /\ Len(calls[r1]) = 1
        /\ pc[r2] = "done" /\ Len(calls[r2]) = 1
        /\ upstream[r2].kind = "transport_error"

\* C10: the client is constructed once at startup and closed once at
\* shutdown: while requests run it is the one open client, and once the
\* lifespan has ended, normally or through an error, it has been closed once.
C10_ClientOnceOpenedOnceClosed ==
    /\ phase = "init" => (created = 0 /\ closed = 0 /\ client = "none")
    /\ phase = "running" => (created = 1 /\ closed = 0 /\ client = "open")
    /\ phase \in {"returned", "raised"} => (created = 1 /\ closed = 1 /\ client = "closed")

C10_Witness ==
    /\ phase = "raised"
    /\ closed = 1
    /\ \E r \in DOMAIN pc : pc[r] = "failed"
    /\ \E r \in DOMAIN pc : pc[r] = "done" /\ events[r][1].event = "error"

====
